---- MODULE Spec2Model ----
(***************************************************************************)
(* Widgets of the toot client: the account card (widgets/account.rs) and   *)
(* the status card with its StatusHandles view-model (widgets/status.rs).  *)
(* The host owns a fetched domain object and an image-handle cache that    *)
(* it fills asynchronously; on each redraw it calls the builders, which    *)
(* are modelled here as operators producing a widget tree as a record.     *)
(***************************************************************************)
EXTENDS Integers, Sequences, FiniteSets, TLC

VARIABLES input, cache, out

vars == <<input, cache, out>>

(***************************************************************************)
(* Bounds of the model.                                                    *)
(***************************************************************************)
\* Number of distinct accounts the host has fetched.
NumAccounts == 2
\* Longest media-attachment list of a status.
MaxMedia == 1

(***************************************************************************)
(* Option<T>: None is the empty sequence, Some(x) the one-element one.     *)
(***************************************************************************)
None == <<>>

Some(x) == <<x>>

is_some(opt) == opt # None

unwrap(opt) == opt[1]

unwrap_or(opt, default) == IF is_some(opt) THEN opt[1] ELSE default

Option(S) == {None} \cup {Some(x) : x \in S}

\* Sequences over S of length at most n.
SeqUpTo(S, n) == UNION {[1..k -> S] : k \in 0..n}

(***************************************************************************)
(* Image handles.  A Handle is an opaque reference to a decoded image; the *)
(* host decodes the image found at a URL.  utils::fallback_handle() and    *)
(* utils::fallback_avatar() are the fixed placeholder.                     *)
(***************************************************************************)
HandleOf(url) == [image |-> url]

fallback_handle == [image |-> "fallback"]

\* widget::image(handle) with optional fixed size (0 = unset).
image(handle, width, height) == [widget |-> "image", handle |-> handle, width |-> width, height |-> height]

fallback_avatar == image(fallback_handle, 0, 0)

\* HashMap::get(key): Some(value) when the key is present.
get(handles, key) == IF key \in DOMAIN handles THEN Some(handles[key]) ELSE None

(***************************************************************************)
(* Domain data (mastodon_async Account / Attachment / Status /             *)
(* Notification), restricted to the fields the widgets read.               *)
(***************************************************************************)
AccountIds == 1..NumAccounts

AvatarUrl(i) == "https://cdn.example/avatar/" \o ToString(i)

HeaderUrl(i) == "https://cdn.example/header/" \o ToString(i)

Notes == {"", "<p>bio</p>"}

FieldLists == {None, Some(<<[name |-> "website", value |-> "<a href='https://x.example'>x</a>"], [name |-> "pronouns", value |-> "she/her"]>>)}

MkAccount(i, note, fields) ==
    [ display_name    |-> "User " \o ToString(i),
      username        |-> "user" \o ToString(i),
      url             |-> "https://social.example/@user" \o ToString(i),
      avatar          |-> AvatarUrl(i),
      header          |-> HeaderUrl(i),
      note            |-> note,
      created_at      |-> [day |-> 5, month |-> 3, year |-> 2024],
      fields          |-> fields,
      followers_count |-> 10 * i,
      following_count |-> 10 * i + 1,
      statuses_count  |-> 10 * i + 2 ]

\* Accounts as they appear as author of a status or actor of a notification.
Author(i) == MkAccount(i, IF i % 2 = 1 THEN "" ELSE "<p>bio</p>", None)

Authors == {Author(i) : i \in AccountIds}

\* Accounts shown in the profile card.
Accounts == {MkAccount(i, note, fields) : i \in AccountIds, note \in Notes, fields \in FieldLists}

PreviewUrls == {"https://cdn.example/media/1/small", "https://cdn.example/media/2/small"}

\* Attachment 1 has a full-resolution link, attachment 2 has none.
MkAttachment(preview) ==
    [ preview_url |-> preview,
      url         |-> IF preview = "https://cdn.example/media/1/small" THEN Some("https://cdn.example/media/1/original") ELSE None ]

Attachments == {MkAttachment(p) : p \in PreviewUrls}

MediaLists == SeqUpTo(Attachments, MaxMedia)

Favourited == Option(BOOLEAN)

MkStatus(id, acct, media, favourited, favourites, reblog) ==
    [ id                |-> id,
      account           |-> acct,
      content           |-> IF reblog = None THEN "<p>hello</p>" ELSE "",
      media_attachments |-> media,
      tags              |-> IF favourites = 0 THEN <<>> ELSE <<[name |-> "rust", url |-> "https://social.example/tags/rust"]>>,
      reblog            |-> reblog,
      replies_count     |-> IF favourites = 0 THEN None ELSE Some(favourites + 2),
      reblogs_count     |-> favourites + 1,
      favourites_count  |-> favourites,
      favourited        |-> favourited ]

\* Original posts: no reblog.
Originals == {MkStatus("101", a, m, f, c, None) : a \in Authors, m \in MediaLists, f \in Favourited, c \in {0, 5}}

\* Boosts: a wrapper status of another account carrying the original in reblog.
Boosts == {MkStatus("202", a, m, Some(FALSE), 1, Some(r)) : a \in Authors, m \in MediaLists, r \in Originals}

Statuses == Originals \cup Boosts

\* Statuses a notification refers to: posts that already drew a reaction.
Notified == {s \in Statuses : unwrap_or(s.reblog, s).favourites_count > 0}

Notifications == {[account |-> a, status |-> s] : a \in Authors, s \in Option(Notified)}

(***************************************************************************)
(* Text conversions.                                                       *)
(***************************************************************************)
\* html2text::config::rich().string_from_read(src, 700): markup is stripped,
\* a paragraph ends with a newline, a link keeps its text.
Html2Text(src) ==
    CASE src = "" -> ""
      [] src = "<p>bio</p>" -> "bio\n"
      [] src = "<p>hello</p>" -> "hello\n"
      [] src = "<a href='https://x.example'>x</a>" -> "x\n"
      [] src = "she/her" -> "she/her\n"
      [] OTHER -> src

\* capitalize::Capitalize: first letter upper-cased.
Capitalize(name) ==
    CASE name = "website" -> "Website"
      [] name = "pronouns" -> "Pronouns"
      [] OTHER -> name

MonthShort(m) == <<"Jan", "Feb", "Mar", "Apr", "May", "Jun", "Jul", "Aug", "Sep", "Oct", "Nov", "Dec">>[m]

TwoDigits(n) == IF n < 10 THEN "0" \o ToString(n) ELSE ToString(n)

\* created_at.format("[day] [month repr:short] [year]")
FormatDate(d) == TwoDigits(d.day) \o " " \o MonthShort(d.month) \o " " \o ToString(d.year)

(***************************************************************************)
(* widgets/status.rs: StatusHandles.                                       *)
(***************************************************************************)
\* The media map of a status: preview URL -> cached handle or the fallback.
media_map(st, handles) ==
    [u \in {st.media_attachments[i].preview_url : i \in 1..Len(st.media_attachments)} |->
        unwrap_or(get(handles, u), fallback_handle)]

EmptyMedia == [u \in {} |-> fallback_handle]

StatusHandles_new(primary, secondary) ==
    [primary |-> primary, secondary |-> secondary, media |-> EmptyMedia]

from_status_primary(st, handles) == get(handles, st.account.avatar)

\* Mutant: the secondary slot resolved from the boosting account.
from_status_secondary_outer(st, handles) ==
    IF is_some(st.reblog) THEN get(handles, st.account.avatar) ELSE None

from_status_secondary(st, handles) ==
    IF is_some(st.reblog) THEN get(handles, unwrap(st.reblog).account.avatar) ELSE None

\* Mutant: attachments without a cache entry get no key.
from_status_media_cached_only(st, handles) ==
    [u \in {st.media_attachments[i].preview_url : i \in 1..Len(st.media_attachments)} \cap DOMAIN handles |->
        handles[u]]

from_status_media(st, handles) == media_map(st, handles)

from_status(st, handles) ==
    [ primary   |-> from_status_primary(st, handles),
      secondary |-> from_status_secondary(st, handles),
      media     |-> from_status_media(st, handles) ]

from_notification_primary(n, handles) == get(handles, n.account.avatar)

\* Mutant: the secondary slot resolved from the notification's actor.
from_notification_secondary_actor(n, handles) ==
    IF is_some(n.status) THEN get(handles, n.account.avatar) ELSE None

from_notification_secondary(n, handles) ==
    IF is_some(n.status) THEN get(handles, unwrap(n.status).account.avatar) ELSE None

from_notification_media(n, handles) ==
    IF is_some(n.status) THEN media_map(unwrap(n.status), handles) ELSE EmptyMedia

from_notification(n, handles) ==
    [ primary   |-> from_notification_primary(n, handles),
      secondary |-> from_notification_secondary(n, handles),
      media     |-> from_notification_media(n, handles) ]

(***************************************************************************)
(* widgets/status.rs: Message and the status card.                         *)
(***************************************************************************)
OpenProfile(url) == [msg |-> "OpenProfile", arg |-> url]

ExpandStatus(st) == [msg |-> "ExpandStatus", arg |-> st]

Reply(id) == [msg |-> "Reply", arg |-> id]

Favorite(id) == [msg |-> "Favorite", arg |-> id]

Boost(id) == [msg |-> "Boost", arg |-> id]

Bookmark(id) == [msg |-> "Bookmark", arg |-> id]

OpenLink(url) == [msg |-> "OpenLink", arg |-> url]

\* Mutant: no inversion, the card always takes the primary slot.
status_avatars_no_swap(st, handles) ==
    [status_avatar |-> handles.primary, reblog_avatar |-> handles.secondary]

\* The avatar slot inversion: which handle goes to the card, which to the banner.
status_avatars(st, handles) ==
    IF is_some(st.reblog)
    THEN [status_avatar |-> handles.secondary, reblog_avatar |-> handles.primary]
    ELSE [status_avatar |-> handles.primary, reblog_avatar |-> handles.secondary]

\* The "<name> boosted" banner, present when the status has a reblog.
reblog_banner(st, reblog_avatar) ==
    IF is_some(st.reblog)
    THEN Some([ avatar   |-> IF is_some(reblog_avatar)
                             THEN image(unwrap(reblog_avatar), 20, 20)
                             ELSE [fallback_avatar EXCEPT !.width = 20, !.height = 20],
                text     |-> st.account.display_name \o " boosted",
                on_press |-> OpenProfile(st.account.url) ])
    ELSE None

\* Mutant: the outer status stays the displayed one.
displayed_outer(st) == st

\* let status = status.reblog.as_deref().unwrap_or(&status)
displayed(st) == unwrap_or(st.reblog, st)

\* The avatar button, the author link and the body of the displayed status.
content_row(shown, status_avatar) ==
    [ avatar       |-> [handle |-> unwrap_or(status_avatar, fallback_handle), width |-> 50, height |-> 50],
      avatar_press |-> OpenProfile(shown.account.url),
      name         |-> shown.account.display_name \o " @" \o shown.account.username,
      name_press   |-> OpenProfile(shown.account.url),
      body         |-> Html2Text(shown.content),
      body_press   |-> ExpandStatus(shown) ]

tag_chip(tag) == [label |-> "#" \o tag.name, on_press |-> OpenLink(tag.url)]

tags_row(shown) ==
    IF shown.tags # <<>> THEN Some([i \in 1..Len(shown.tags) |-> tag_chip(shown.tags[i])]) ELSE None

\* One image button per attachment whose preview URL is a key of handles.media.
attachments(shown, handles) ==
    LET kept == SelectSeq(shown.media_attachments, LAMBDA m : is_some(get(handles.media, m.preview_url)))
        button(m) == [ handle   |-> unwrap(get(handles.media, m.preview_url)),
                       on_press |-> IF is_some(m.url) THEN Some(OpenLink(unwrap(m.url))) ELSE None ]
    IN  [i \in 1..Len(kept) |-> button(kept[i])]

\* The horizontally scrollable strip.
media_strip(shown, handles) ==
    IF shown.media_attachments # <<>> THEN Some(attachments(shown, handles)) ELSE None

\* Mutant: the two classes exchanged.
favorite_class_inverted(shown) == IF unwrap(shown.favourited) THEN "Standard" ELSE "Link"

\* status.favourited.unwrap() selects the class of the favorite button.
favorite_class(shown) == IF unwrap(shown.favourited) THEN "Link" ELSE "Standard"

actions(shown) ==
    << [ icon     |-> "mail-replied-symbolic",
         label    |-> Some(ToString(unwrap_or(shown.replies_count, 0))),
         class    |-> "Standard",
         on_press |-> Reply(shown.id) ],
       [ icon     |-> "emblem-shared-symbolic",
         label    |-> Some(ToString(shown.reblogs_count)),
         class    |-> "Standard",
         on_press |-> Boost(shown.id) ],
       [ icon     |-> "starred-symbolic",
         label    |-> Some(ToString(shown.favourites_count)),
         class    |-> favorite_class(shown),
         on_press |-> Favorite(shown.id) ],
       [ icon     |-> "bookmark-new-symbolic",
         label    |-> None,
         class    |-> "Standard",
         on_press |-> Bookmark(shown.id) ] >>

\* A builder's result: the widget tree, or a panic (an unwrap of None).
Rendered(tree) == [panicked |-> FALSE, tree |-> Some(tree)]

Panic == [panicked |-> TRUE, tree |-> None]

status(st, handles) ==
    LET avatars == status_avatars(st, handles)
        shown   == displayed(st)
    IN  IF shown.favourited = None
        THEN Panic
        ELSE Rendered([ reblog  |-> reblog_banner(st, avatars.reblog_avatar),
                        content |-> content_row(shown, avatars.status_avatar),
                        media   |-> media_strip(shown, handles),
                        tags    |-> tags_row(shown),
                        actions |-> actions(shown) ])

(***************************************************************************)
(* widgets/account.rs: the account card.                                   *)
(***************************************************************************)
Open(url) == [msg |-> "Open", arg |-> url]

account_header(acct, handles) ==
    IF is_some(get(handles, acct.header)) THEN Some(image(unwrap(get(handles, acct.header)), 0, 0)) ELSE None

\* Mutant: the placeholder policy of the status card applied to the account card.
account_avatar_placeholder(acct, handles) ==
    Some(image(unwrap_or(get(handles, acct.avatar), fallback_handle), 100, 0))

account_avatar(acct, handles) ==
    IF is_some(get(handles, acct.avatar)) THEN Some(image(unwrap(get(handles, acct.avatar)), 100, 0)) ELSE None

account_bio(acct) ==
    IF acct.note # "" THEN Some(Html2Text(acct.note)) ELSE None

account_field(field) ==
    [ name     |-> Capitalize(field.name),
      value    |-> Html2Text(field.value),
      on_press |-> Open(Html2Text(field.value)) ]

account_fields(acct) ==
    IF is_some(acct.fields) THEN Some([i \in 1..Len(unwrap(acct.fields)) |-> account_field(unwrap(acct.fields)[i])]) ELSE None

account(acct, handles) ==
    Rendered([ header       |-> account_header(acct, handles),
               avatar       |-> account_avatar(acct, handles),
               display_name |-> acct.display_name,
               username     |-> [label |-> "@" \o acct.username, on_press |-> Open(acct.url)],
               bio          |-> account_bio(acct),
               joined       |-> "Joined on " \o FormatDate(acct.created_at),
               info         |-> [ followers |-> ToString(acct.followers_count),
                                  following |-> ToString(acct.following_count),
                                  statuses  |-> ToString(acct.statuses_count) ],
               fields       |-> account_fields(acct) ])

(***************************************************************************)
(* The host: it holds one fetched object, fills the image cache as the     *)
(* fetches complete and rebuilds the view after every update.              *)
(***************************************************************************)
Inputs ==
    {[kind |-> "account", value |-> a] : a \in Accounts}
    \cup {[kind |-> "status", value |-> s] : s \in Statuses}
    \cup {[kind |-> "notification", value |-> n] : n \in Notifications}

StatusUrls(st) ==
    {st.account.avatar} \cup {st.media_attachments[i].preview_url : i \in 1..Len(st.media_attachments)}

AllStatusUrls(st) ==
    StatusUrls(st) \cup (IF is_some(st.reblog) THEN StatusUrls(unwrap(st.reblog)) ELSE {})

\* The image URLs the host fetches for the object it shows.
Wanted(in) ==
    CASE in.kind = "account" -> {in.value.avatar, in.value.header}
      [] in.kind = "status" -> AllStatusUrls(in.value)
      [] in.kind = "notification" ->
            {in.value.account.avatar}
            \cup (IF is_some(in.value.status) THEN AllStatusUrls(unwrap(in.value.status)) ELSE {})

EmptyCache == [u \in {} |-> fallback_handle]

NoOutput == [kind |-> "none", handles |-> None, panicked |-> FALSE, view |-> None]

Output(kind, handles, result) ==
    [kind |-> kind, handles |-> handles, panicked |-> result.panicked, view |-> result.tree]

Init ==
    /\ input \in Inputs
    /\ cache = EmptyCache
    /\ out = NoOutput

\* An image fetch completes: the host inserts the decoded handle; the widget
\* tree of the previous frame is dropped.
InsertImage ==
    \E u \in Wanted(input) \ DOMAIN cache :
        /\ cache' = [k \in DOMAIN cache \cup {u} |-> IF k = u THEN HandleOf(u) ELSE cache[k]]
        /\ out' = NoOutput
        /\ UNCHANGED input

RenderAccount ==
    /\ input.kind = "account"
    /\ out' = Output("account", None, account(input.value, cache))
    /\ UNCHANGED <<input, cache>>

RenderStatus ==
    /\ input.kind = "status"
    /\ LET handles == from_status(input.value, cache)
       IN  out' = Output("status", Some(handles), status(input.value, handles))
    /\ UNCHANGED <<input, cache>>

\* The caller supplies the two avatar slots itself (StatusHandles::new).
RenderStatusNew ==
    /\ input.kind = "status"
    /\ \E primary, secondary \in {None} \cup {get(cache, a.avatar) : a \in Authors} :
          LET handles == StatusHandles_new(primary, secondary)
          IN  out' = Output("status_new", Some(handles), status(input.value, handles))
    /\ UNCHANGED <<input, cache>>

\* A notification: its handles, and the card of its embedded status, if any.
RenderNotification ==
    /\ input.kind = "notification"
    /\ LET handles == from_notification(input.value, cache)
       IN  out' = Output("notification", Some(handles),
                         IF is_some(input.value.status)
                         THEN status(unwrap(input.value.status), handles)
                         ELSE [panicked |-> FALSE, tree |-> None])
    /\ UNCHANGED <<input, cache>>

Next ==
    \/ InsertImage
    \/ RenderAccount
    \/ RenderStatus
    \/ RenderStatusNew
    \/ RenderNotification

Spec == Init /\ [][Next]_vars

TypeOK ==
    /\ input \in Inputs
    /\ DOMAIN cache \subseteq Wanted(input)
    /\ out.kind \in {"none", "account", "status", "status_new", "notification"}

(***************************************************************************)
(* Properties.  They are stated over the host's input and cache and the    *)
(* recorded output; the cache is the one the output was built from,        *)
(* because every insertion drops the previous output.                      *)
(***************************************************************************)
\* The output holds the card of a status.
CardShown == out.kind \in {"status", "status_new", "notification"} /\ is_some(out.view)

\* The status the card was built from.
CardStatus == IF input.kind = "notification" THEN input.value.status[1] ELSE input.value

\* The status the card displays: the reblogged one when there is a reblog.
Inner(st) == IF st.reblog # <<>> THEN st.reblog[1] ELSE st

Cached(url) == IF url \in DOMAIN cache THEN <<cache[url]>> ELSE <<>>

CachedOrFallback(url) == IF url \in DOMAIN cache THEN cache[url] ELSE fallback_handle

SlotOrFallback(slot) == IF slot # <<>> THEN slot[1] ELSE fallback_handle

Previews(st) == {st.media_attachments[i].preview_url : i \in 1..Len(st.media_attachments)}

\* C1: every media preview URL of the effective status (the reblogged status
\* of a status with a reblog, the embedded status of a notification) is a key
\* of the media mapping built by from_status / from_notification, with the
\* cached handle as value when the URL is cached and the fallback otherwise.
C1_MediaCoversEffectiveStatus ==
    /\ out.kind = "status" =>
          /\ is_some(out.handles)
          /\ \A u \in Previews(Inner(input.value)) :
                /\ u \in DOMAIN out.handles[1].media
                /\ out.handles[1].media[u] = CachedOrFallback(u)
    /\ (out.kind = "notification" /\ input.value.status # <<>>) =>
          /\ is_some(out.handles)
          /\ \A u \in Previews(input.value.status[1]) :
                /\ u \in DOMAIN out.handles[1].media
                /\ out.handles[1].media[u] = CachedOrFallback(u)

\* C2: with a reblog the card has a boost banner naming the outer account
\* whose avatar is handles.primary, and the main avatar is handles.secondary;
\* without a reblog the main avatar is handles.primary and there is no banner.
\* An absent slot shows the fallback image.
C2_AvatarSlotInversion ==
    (CardShown /\ ~out.panicked) =>
        LET v == out.view[1]
            h == out.handles[1]
            st == CardStatus
        IN  IF st.reblog # <<>>
            THEN /\ v.reblog # <<>>
                 /\ v.reblog[1].text = st.account.display_name \o " boosted"
                 /\ v.reblog[1].avatar.handle = SlotOrFallback(h.primary)
                 /\ v.content.avatar.handle = SlotOrFallback(h.secondary)
            ELSE /\ v.reblog = <<>>
                 /\ v.content.avatar.handle = SlotOrFallback(h.primary)

C2_Witness ==
    /\ out.kind = "status_new"
    /\ ~out.panicked
    /\ input.value.reblog # <<>>
    /\ out.handles[1].primary # <<>>
    /\ out.handles[1].secondary # <<>>
    /\ out.handles[1].primary # out.handles[1].secondary
    /\ out.view[1].reblog # <<>>

\* C3 (as claimed): with handles freshly built by from_status there is no
\* media strip when the displayed attachment list is empty, and the strip
\* holds exactly the attachments whose preview URL has a cache entry.
C3_UncachedAttachmentOmitted ==
    (out.kind = "status" /\ ~out.panicked) =>
        LET v == out.view[1]
            shown == Inner(input.value)
            cached == SelectSeq(shown.media_attachments, LAMBDA m : m.preview_url \in DOMAIN cache)
        IN  /\ shown.media_attachments = <<>> => v.media = <<>>
            /\ v.media # <<>> =>
                  /\ Len(v.media[1]) = Len(cached)
                  /\ \A i \in 1..Len(cached) : v.media[1][i].handle = cache[cached[i].preview_url]

\* C3 (amended): the strip is absent exactly when the displayed attachment
\* list is empty; an attachment is in the strip exactly when its preview URL
\* is among the preview URLs of the status given to from_status, and it shows
\* the cached handle, or the fallback placeholder when the URL is not cached.
C3_StripFollowsMediaKeys ==
    (out.kind = "status" /\ ~out.panicked) =>
        LET v == out.view[1]
            shown == Inner(input.value)
            keyed == SelectSeq(shown.media_attachments, LAMBDA m : m.preview_url \in Previews(input.value))
        IN  /\ shown.media_attachments = <<>> <=> v.media = <<>>
            /\ v.media # <<>> =>
                  /\ Len(v.media[1]) = Len(keyed)
                  /\ \A i \in 1..Len(keyed) : v.media[1][i].handle = CachedOrFallback(keyed[i].preview_url)

C3_Witness ==
    /\ out.kind = "status"
    /\ ~out.panicked
    /\ input.value.reblog = <<>>
    /\ Len(input.value.media_attachments) >= 1
    /\ input.value.media_attachments[1].preview_url \notin DOMAIN cache
    /\ out.view[1].media # <<>>
    /\ Len(out.view[1].media[1]) >= 1
    /\ out.view[1].media[1][1].handle = fallback_handle

\* C4: primary is the cache lookup of the status's / notification's own
\* account avatar; secondary is absent without a reblog (from_status) or
\* without an embedded status (from_notification), and otherwise the cache
\* lookup of the reblogged author's / the embedded status's author's avatar.
C4_PrimarySecondary ==
    /\ out.kind = "status" =>
          LET h == out.handles[1]
              st == input.value
          IN  /\ h.primary = Cached(st.account.avatar)
              /\ h.secondary = IF st.reblog = <<>> THEN <<>> ELSE Cached(st.reblog[1].account.avatar)
    /\ out.kind = "notification" =>
          LET h == out.handles[1]
              n == input.value
          IN  /\ h.primary = Cached(n.account.avatar)
              /\ h.secondary = IF n.status = <<>> THEN <<>> ELSE Cached(n.status[1].account.avatar)

C4_Witness ==
    /\ out.kind = "notification"
    /\ input.value.status # <<>>
    /\ out.handles[1].primary # <<>>
    /\ out.handles[1].secondary # <<>>
    /\ out.handles[1].secondary # out.handles[1].primary

\* C5: the favorite control is labelled with the displayed status's
\* favourites_count, has the active class exactly when favourited is true and
\* the inactive class when it is false; a missing favourited flag is fatal.
C5_FavoriteControl ==
    (out.kind \in {"status", "status_new", "notification"} /\ (input.kind = "notification" => input.value.status # <<>>)) =>
        LET shown == Inner(CardStatus)
        IN  /\ out.panicked <=> shown.favourited = <<>>
            /\ ~out.panicked =>
                  LET fav == out.view[1].actions[3]
                  IN  /\ fav.icon = "starred-symbolic"
                      /\ fav.label = <<ToString(shown.favourites_count)>>
                      /\ shown.favourited = <<TRUE>> => fav.class = "Link"
                      /\ shown.favourited = <<FALSE>> => fav.class = "Standard"

C5_Witness ==
    /\ out.kind = "status"
    /\ ~out.panicked
    /\ Inner(input.value).favourited = <<TRUE>>
    /\ Inner(input.value).favourites_count = 5
    /\ out.view[1].actions[3].label = <<"5">>
    /\ out.view[1].actions[3].class = "Link"

\* C7: in the account card the header image is present iff the cache has
\* account.header, the avatar image iff the cache has account.avatar (an
\* absent image is omitted, not placeholdered), the bio iff the note is
\* non-empty.
C7_AccountOptionalElements ==
    out.kind = "account" =>
        LET v == out.view[1]
            a == input.value
        IN  /\ ~out.panicked
            /\ v.header # <<>> <=> a.header \in DOMAIN cache
            /\ v.header # <<>> => v.header[1].handle = cache[a.header]
            /\ v.avatar # <<>> <=> a.avatar \in DOMAIN cache
            /\ v.avatar # <<>> => v.avatar[1].handle = cache[a.avatar]
            /\ v.bio # <<>> <=> a.note # ""

C7_Witness ==
    /\ out.kind = "account"
    /\ input.value.header \in DOMAIN cache
    /\ input.value.avatar \notin DOMAIN cache
    /\ input.value.note = ""
    /\ out.view[1].header # <<>>
    /\ out.view[1].avatar = <<>>
    /\ out.view[1].bio = <<>>

\* C8: a status rendered with from_status handles shows next to the
\* displayed author that author's cached avatar or the fallback, and in the
\* boost banner the boosting account's cached avatar or the fallback.
C8_StatusAvatarsConsistent ==
    (out.kind = "status" /\ ~out.panicked) =>
        LET v == out.view[1]
            st == input.value
            shown == Inner(st)
        IN  /\ v.content.name = shown.account.display_name \o " @" \o shown.account.username
            /\ v.content.avatar_press = [msg |-> "OpenProfile", arg |-> shown.account.url]
            /\ v.content.avatar.handle = CachedOrFallback(shown.account.avatar)
            /\ v.reblog # <<>> => v.reblog[1].avatar.handle = CachedOrFallback(st.account.avatar)

C8_Witness ==
    /\ out.kind = "status"
    /\ ~out.panicked
    /\ input.value.reblog # <<>>
    /\ input.value.account.avatar # input.value.reblog[1].account.avatar
    /\ input.value.account.avatar \in DOMAIN cache
    /\ input.value.reblog[1].account.avatar \in DOMAIN cache
    /\ out.view[1].content.avatar.handle = cache[input.value.reblog[1].account.avatar]

\* C9: the action row holds exactly reply, boost, favorite and bookmark,
\* emitting Reply/Boost/Favorite/Bookmark with the id of the displayed status
\* (the reblogged one when a reblog is present); the counts shown and the
\* status carried by ExpandStatus are those of the displayed status.
C9_ActionsOfDisplayedStatus ==
    (CardShown /\ ~out.panicked) =>
        LET v == out.view[1]
            shown == Inner(CardStatus)
            row == v.actions
        IN  /\ Len(row) = 4
            /\ row[1].on_press = [msg |-> "Reply", arg |-> shown.id]
            /\ row[2].on_press = [msg |-> "Boost", arg |-> shown.id]
            /\ row[3].on_press = [msg |-> "Favorite", arg |-> shown.id]
            /\ row[4].on_press = [msg |-> "Bookmark", arg |-> shown.id]
            /\ row[1].label = <<ToString(IF shown.replies_count = <<>> THEN 0 ELSE shown.replies_count[1])>>
            /\ row[2].label = <<ToString(shown.reblogs_count)>>
            /\ row[3].label = <<ToString(shown.favourites_count)>>
            /\ row[4].label = <<>>
            /\ v.content.body_press = [msg |-> "ExpandStatus", arg |-> shown]

C9_Witness ==
    /\ out.kind = "status"
    /\ ~out.panicked
    /\ input.value.reblog # <<>>
    /\ input.value.id # input.value.reblog[1].id
    /\ out.view[1].actions[1].on_press.arg = input.value.reblog[1].id
    /\ out.view[1].actions[1].label = <<"7">>

\* C10: the embedded status of a notification rendered with
\* from_notification handles shows next to the displayed author that author's
\* cached avatar, or the fallback when it is not cached.
C10_NotificationAvatarConsistent ==
    (out.kind = "notification" /\ is_some(out.view) /\ ~out.panicked) =>
        out.view[1].content.avatar.handle = CachedOrFallback(Inner(input.value.status[1]).account.avatar)

====
